---- MODULE Spec2Model ----
(***************************************************************************)
(* Task booking store of ai_reception (src/src/ai_reception/db.py).        *)
(*                                                                         *)
(* The tasks table is a sequence of rows (row i has id i: AUTOINCREMENT,   *)
(* rows are never deleted).  Timestamps are ISO strings in the program;    *)
(* here a booking start time is the number of minutes after an arbitrary   *)
(* origin and the wall clock is the number of minutes since start-up, so   *)
(* that datetime comparison and timedelta arithmetic are integer           *)
(* comparison and addition.  A string datetime.fromisoformat rejects is    *)
(* BadTime, SQL NULL / Python None is NULL.                                *)
(***************************************************************************)
EXTENDS Integers, Sequences, FiniteSets, TLC

\* ---------------------------------------------------------------- bounds
MaxTasks      == 2   \* rows the tasks table may hold
MaxSlot       == 1   \* start times are 0, 30, .., 30 * MaxSlot minutes
MaxDurSlots   == 2   \* durations are 0, 30, .., 30 * MaxDurSlots minutes
MaxClockSteps == 2   \* the clock advances in 5 minute steps up to 5 * MaxClockSteps
NumConvs      == 2   \* rows of the conversations table
NumStaff      == 2   \* seeded rows of the staff table
MaxNewStaff   == 1   \* rows upsert_staff may insert into the staff table

\* ------------------------------------------------------ program constants
HOLD_MINUTES     == 10   \* DEFAULT_SETTINGS["hold_minutes"]
DEFAULT_DURATION == 60   \* "int(r['duration_min'] or 60)", duration_min DEFAULT 60

\* encodings: SQL NULL / Python None, and a start_time string that
\* datetime.fromisoformat rejects; neither is a time or an id
NULL    == 0 - 1
BadTime == 0 - 2

Statuses == {"TODO", "HOLD", "CONFIRMED", "IN_PROGRESS", "DONE", "CANCELLED", "EXPIRED"}
ActiveForConv == {"TODO", "HOLD", "CONFIRMED", "IN_PROGRESS"}
ActiveBooking == {"HOLD", "CONFIRMED", "IN_PROGRESS"}
Terminal == {"DONE", "CANCELLED", "EXPIRED"}

Convs      == 1..NumConvs
StaffIds   == 1..NumStaff
StartTimes == {30 * k : k \in 0..MaxSlot}
Durations  == {30 * k : k \in 0..MaxDurSlots}
Extracted  == {"e1", "e2"}
Callers    == 1..2

\* task ids the callers may pass: an id above Len(tasks) is the id of no row
TaskIdArgs   == 1..MaxTasks
\* the id of no row of the staff table
UnknownStaff == NumStaff + 1

\* messages returned by assign_hold
MsgBadTime    == "bad time format"
MsgOverlap    == "conflict: interval occupied"
MsgStartTaken == "conflict: start time occupied"
MsgHold       == "HOLD"

VARIABLES
    tasks,   \* the tasks table
    staff,   \* the staff table: id -> [active]
    now,     \* the wall clock read by now_iso()
    ret,     \* the last call and what it returned
    pc,      \* per concurrent caller: where it is inside assign_hold
    req,     \* per concurrent caller: the arguments and locals of its call
    res,     \* history, per concurrent caller: what its latest assign_hold returned
    concurrent,  \* history: the latest calls of the two callers overlapped in time
    staff_seq,   \* sqlite_sequence of staff: the largest staff id ever assigned
    sweep,       \* where a cleanup_expired_holds of another actor is, and what it selected
    timer,       \* an "after(2500, self._tick)" callback is pending
    app          \* "running" until the window-close handler has run

\* the variables the store operations of a caller leave alone
aux == <<staff_seq, sweep, timer, app>>

vars == <<tasks, staff, now, ret, pc, req, res, concurrent, staff_seq, sweep, timer, app>>

TaskIds == 1..Len(tasks)

NoReq == [task_id |-> 0, staff_id |-> 0, start_time |-> 0, duration_min |-> 0,
          hold_minutes |-> 0, now |-> 0]

Ret(op, ok, msg, n) == [op |-> op, ok |-> ok, msg |-> msg, n |-> n]

\* timeutil.parse_iso: the datetime, or None when fromisoformat raises
parse_iso(s) == IF s = BadTime \/ s = NULL THEN NULL ELSE s

Max2(a, b) == IF a >= b THEN a ELSE b
Min2(a, b) == IF a <= b THEN a ELSE b

\* "r['duration_min'] or 60": 0 is falsy
DurationOr60(d) == IF d = 0 THEN DEFAULT_DURATION ELSE d

\* OverlapConflictIn with 'CANCELLED' in the status list of the SELECT: a
\* cancelled booking still occupies its staff
OverlapConflictIn_CountsCancelled(T, staff_id, start_time, end_time) ==
    LET rows  == {i \in 1..Len(T) : /\ T[i].staff_id = staff_id
                                     /\ T[i].status \in ActiveBooking \cup {"CANCELLED"}
                                     /\ T[i].start_time # NULL}
        s_new == parse_iso(start_time)
        e_new == parse_iso(end_time)
    IN  IF s_new = NULL \/ e_new = NULL
        THEN FALSE
        ELSE \E i \in rows :
                LET s == parse_iso(T[i].start_time)
                    e == s + DurationOr60(T[i].duration_min)
                IN  /\ s # NULL
                    /\ Max2(s, s_new) < Min2(e, e_new)

\* DB._overlap_conflict, over a given contents T of the tasks table
OverlapConflictIn(T, staff_id, start_time, end_time) ==
    LET rows  == {i \in 1..Len(T) : /\ T[i].staff_id = staff_id
                                     /\ T[i].status \in ActiveBooking
                                     /\ T[i].start_time # NULL}
        s_new == parse_iso(start_time)
        e_new == parse_iso(end_time)
    IN  IF s_new = NULL \/ e_new = NULL
        THEN FALSE
        ELSE \E i \in rows :
                LET s == parse_iso(T[i].start_time)
                    e == s + DurationOr60(T[i].duration_min)
                IN  /\ s # NULL
                    /\ Max2(s, s_new) < Min2(e, e_new)

_overlap_conflict(staff_id, start_time, end_time) ==
    OverlapConflictIn(tasks, staff_id, start_time, end_time)

\* InUniqueIndex with the WHERE clause "status = 'HOLD'": confirmed bookings
\* are not in the index
InUniqueIndex_HoldOnly(row) ==
    /\ row.staff_id # NULL
    /\ row.start_time # NULL
    /\ row.status = "HOLD"

\* the partial unique index ux_tasks_staff_start_active
InUniqueIndex(row) ==
    /\ row.staff_id # NULL
    /\ row.start_time # NULL
    /\ row.status \in ActiveBooking

UniqueIndexOk(T) ==
    \A i, j \in 1..Len(T) :
        (i # j /\ InUniqueIndex(T[i]) /\ InUniqueIndex(T[j]))
            => ~(T[i].staff_id = T[j].staff_id /\ T[i].start_time = T[j].start_time)

\* FOREIGN KEY(staff_id) REFERENCES staff(id), with PRAGMA foreign_keys=ON
ForeignKeyOk(T) ==
    \A i \in 1..Len(T) : T[i].staff_id # NULL => T[i].staff_id \in DOMAIN staff

\* whether the store accepts the written table (else sqlite3.IntegrityError)
IntegrityOk(T) == UniqueIndexOk(T) /\ ForeignKeyOk(T)

Init ==
    /\ tasks = << >>
    /\ staff = [s \in StaffIds |-> [active |-> 1]]
    /\ now = 0
    /\ ret = Ret("init", TRUE, "", 0)
    /\ pc = [c \in Callers |-> "idle"]
    /\ req = [c \in Callers |-> NoReq]
    /\ res = [c \in Callers |-> "none"]
    /\ concurrent = FALSE
    /\ staff_seq = NumStaff
    /\ sweep = [pc |-> "idle", ids |-> {}]
    /\ timer = TRUE
    /\ app = "running"

\* the clock moves on between calls
AdvanceClock ==
    /\ now + 5 <= 5 * MaxClockSteps
    /\ now' = now + 5
    /\ UNCHANGED <<tasks, staff, ret, pc, req, res, concurrent, aux>>

\* ActiveTaskIn without the status condition: the conversation's latest task
ActiveTaskIn_AnyStatus(T, conv_id) ==
    LET ids == {i \in 1..Len(T) : T[i].conv_id = conv_id}
    IN  IF ids = {} THEN 0 ELSE CHOOSE i \in ids : \A j \in ids : j <= i

\* ActiveTaskIn with the status list of the overlap check (no 'TODO')
ActiveTaskIn_NoTodo(T, conv_id) ==
    LET ids == {i \in 1..Len(T) : T[i].conv_id = conv_id /\ T[i].status \in ActiveBooking}
    IN  IF ids = {} THEN 0 ELSE CHOOSE i \in ids : \A j \in ids : j <= i

\* DB.get_active_task_for_conv / the SELECT of create_or_update_task:
\* "... ORDER BY id DESC LIMIT 1"; 0 when there is no row
ActiveTaskIn(T, conv_id) ==
    LET ids == {i \in 1..Len(T) : T[i].conv_id = conv_id /\ T[i].status \in ActiveForConv}
    IN  IF ids = {} THEN 0 ELSE CHOOSE i \in ids : \A j \in ids : j <= i

get_active_task_for_conv(conv_id) == ActiveTaskIn(tasks, conv_id)

NewTask(conv_id, extracted) ==
    [conv_id |-> conv_id, info |-> extracted, start_time |-> NULL,
     duration_min |-> DEFAULT_DURATION, staff_id |-> NULL, status |-> "TODO",
     hold_expires_at |-> NULL, created_time |-> now, updated_time |-> now]

\* create_or_update_task without the SELECT: every call inserts a task
create_or_update_task_AlwaysInserts(conv_id, extracted) ==
    /\ Len(tasks) < MaxTasks
    /\ tasks' = Append(tasks, NewTask(conv_id, extracted))
    /\ ret' = Ret("create_or_update_task", TRUE, "", Len(tasks) + 1)
    /\ UNCHANGED <<staff, now, pc, req, res, concurrent, aux>>

\* DB.create_or_update_task
create_or_update_task(conv_id, extracted) ==
    LET tid == get_active_task_for_conv(conv_id)
    IN  /\ IF tid # 0
           THEN /\ tasks' = [tasks EXCEPT ![tid].info = extracted,
                                          ![tid].updated_time = now]
                /\ ret' = Ret("create_or_update_task", TRUE, "", tid)
           ELSE /\ Len(tasks) < MaxTasks
                /\ tasks' = Append(tasks, NewTask(conv_id, extracted))
                /\ ret' = Ret("create_or_update_task", TRUE, "", Len(tasks) + 1)
        /\ UNCHANGED <<staff, now, pc, req, res, concurrent, aux>>

\* HeldRow keeping the deadline of a task that is already in HOLD
HeldRow_KeepsDeadline(row, staff_id, start_time, duration_min, hold_minutes, n) ==
    [row EXCEPT !.staff_id = staff_id, !.start_time = start_time,
                !.duration_min = duration_min, !.status = "HOLD",
                !.hold_expires_at = IF row.status = "HOLD" THEN row.hold_expires_at
                                                           ELSE n + hold_minutes,
                !.updated_time = n]

\* the row assign_hold's UPDATE writes; n is the "now" read at the start of the call
HeldRow(row, staff_id, start_time, duration_min, hold_minutes, n) ==
    [row EXCEPT !.staff_id = staff_id, !.start_time = start_time,
                !.duration_min = duration_min, !.status = "HOLD",
                !.hold_expires_at = n + hold_minutes, !.updated_time = n]

\* "UPDATE tasks SET ... WHERE id=?": no row matches an unknown id
UpdateHold(T, task_id, staff_id, start_time, duration_min, hold_minutes, n) ==
    IF task_id \in 1..Len(T)
    THEN [T EXCEPT ![task_id] =
              HeldRow(T[task_id], staff_id, start_time, duration_min, hold_minutes, n)]
    ELSE T

\* whether DB.assign_hold, called on table T at time n, returns (True, ...)
HoldAccepted(T, n, task_id, staff_id, start_time, duration_min, hold_minutes) ==
    /\ parse_iso(start_time) # NULL
    /\ ~OverlapConflictIn(T, staff_id, start_time, parse_iso(start_time) + duration_min)
    /\ IntegrityOk(UpdateHold(T, task_id, staff_id, start_time, duration_min, hold_minutes, n))

\* assign_hold with the UPDATE issued before the overlap check: a rejected
\* request has already written the row
assign_hold_WritesOnConflict(task_id, staff_id, start_time, duration_min, hold_minutes) ==
    LET sdt      == parse_iso(start_time)
        end_time == sdt + duration_min
        T2       == UpdateHold(tasks, task_id, staff_id, start_time, duration_min, hold_minutes, now)
    IN  /\ IF sdt = NULL
           THEN /\ ret' = Ret("assign_hold", FALSE, MsgBadTime, 0)
                /\ UNCHANGED tasks
           ELSE IF ~IntegrityOk(T2)
           THEN /\ ret' = Ret("assign_hold", FALSE, MsgStartTaken, 0)
                /\ UNCHANGED tasks
           ELSE IF _overlap_conflict(staff_id, start_time, end_time)
           THEN /\ ret' = Ret("assign_hold", FALSE, MsgOverlap, 0)
                /\ tasks' = T2
           ELSE /\ ret' = Ret("assign_hold", TRUE, MsgHold, 0)
                /\ tasks' = T2
        /\ UNCHANGED <<staff, now, pc, req, res, concurrent, aux>>

\* DB.assign_hold, run without interruption
assign_hold(task_id, staff_id, start_time, duration_min, hold_minutes) ==
    LET sdt      == parse_iso(start_time)
        end_time == sdt + duration_min
        T2       == UpdateHold(tasks, task_id, staff_id, start_time, duration_min, hold_minutes, now)
    IN  /\ IF sdt = NULL
           THEN /\ ret' = Ret("assign_hold", FALSE, MsgBadTime, 0)
                /\ UNCHANGED tasks
           ELSE IF _overlap_conflict(staff_id, start_time, end_time)
           THEN /\ ret' = Ret("assign_hold", FALSE, MsgOverlap, 0)
                /\ UNCHANGED tasks
           ELSE IF IntegrityOk(T2)
           THEN /\ ret' = Ret("assign_hold", TRUE, MsgHold, 0)
                /\ tasks' = T2
           ELSE /\ ret' = Ret("assign_hold", FALSE, MsgStartTaken, 0)
                /\ UNCHANGED tasks
        /\ UNCHANGED <<staff, now, pc, req, res, concurrent, aux>>

\* a single-row "UPDATE tasks SET status=?, ... WHERE id=?" of confirm_task,
\* mark_done and cancel_task; an IntegrityError is not caught and leaves the table as it was
SetStatus(op, task_id, row) ==
    LET T2 == IF task_id \in TaskIds THEN [tasks EXCEPT ![task_id] = row] ELSE tasks
    IN  /\ IF IntegrityOk(T2)
           THEN /\ tasks' = T2
                /\ ret' = Ret(op, TRUE, "", 0)
           ELSE /\ UNCHANGED tasks
                /\ ret' = Ret(op, FALSE, "IntegrityError", 0)
        /\ UNCHANGED <<staff, now, pc, req, res, concurrent, aux>>

RowOr(task_id) == IF task_id \in TaskIds THEN tasks[task_id] ELSE NewTask(NULL, "e1")

\* DB.confirm_task
confirm_task(task_id) ==
    SetStatus("confirm_task", task_id,
              [RowOr(task_id) EXCEPT !.status = "CONFIRMED", !.hold_expires_at = NULL,
                                     !.updated_time = now])

\* DB.mark_done
mark_done(task_id) ==
    SetStatus("mark_done", task_id,
              [RowOr(task_id) EXCEPT !.status = "DONE", !.updated_time = now])

\* DB.cancel_task
cancel_task(task_id) ==
    SetStatus("cancel_task", task_id,
              [RowOr(task_id) EXCEPT !.status = "CANCELLED", !.updated_time = now])

\* DueHolds with the comparison "dt < now": a deadline equal to the clock is missed
DueHolds_Strict(T, n) ==
    {i \in 1..Len(T) : /\ T[i].status = "HOLD"
                        /\ T[i].hold_expires_at # NULL
                        /\ parse_iso(T[i].hold_expires_at) # NULL
                        /\ parse_iso(T[i].hold_expires_at) < n}

\* DueHolds without the deadline comparison: every HOLD row is collected
DueHolds_All(T, n) ==
    {i \in 1..Len(T) : T[i].status = "HOLD" /\ T[i].hold_expires_at # NULL}

\* DueHolds without "WHERE status='HOLD'": every row with a passed deadline is collected
DueHolds_AnyStatus(T, n) ==
    {i \in 1..Len(T) : /\ T[i].hold_expires_at # NULL
                        /\ parse_iso(T[i].hold_expires_at) # NULL
                        /\ parse_iso(T[i].hold_expires_at) <= n}

\* the ids cleanup_expired_holds collects: HOLD rows whose deadline is at or before n
DueHolds(T, n) ==
    {i \in 1..Len(T) : /\ T[i].status = "HOLD"
                        /\ T[i].hold_expires_at # NULL
                        /\ parse_iso(T[i].hold_expires_at) # NULL
                        /\ parse_iso(T[i].hold_expires_at) <= n}

\* ExpiredRow with the status and deadline columns left out of the UPDATE
ExpiredRow_KeepsHold(row, n) ==
    [row EXCEPT !.staff_id = NULL, !.start_time = NULL, !.updated_time = n]

\* the row written by the UPDATE of cleanup_expired_holds
ExpiredRow(row, n) ==
    [row EXCEPT !.status = "EXPIRED", !.staff_id = NULL, !.start_time = NULL,
                !.hold_expires_at = NULL, !.updated_time = n]

\* DB.cleanup_expired_holds
cleanup_expired_holds ==
    LET expired == DueHolds(tasks, now)
    IN  /\ tasks' = [i \in TaskIds |-> IF i \in expired THEN ExpiredRow(tasks[i], now) ELSE tasks[i]]
        /\ ret' = Ret("cleanup_expired_holds", TRUE, "", Cardinality(expired))
        /\ UNCHANGED <<staff, now, pc, req, res, concurrent, aux>>

\* ------------------------------------------------------ the staff table
\* DB.upsert_staff.  Name and phone are not modelled, except that the phone may
\* be the UNIQUE phone of another row, in which case the statement raises
\* sqlite3.IntegrityError and nothing is written.  A staff_id of None inserts a
\* row under the next AUTOINCREMENT id.
upsert_staff(staff_id, active, phone_taken) ==
    /\ IF phone_taken
       THEN /\ DOMAIN staff \ {staff_id} # {}
            /\ ret' = Ret("upsert_staff", FALSE, "IntegrityError", 0)
            /\ UNCHANGED <<staff, staff_seq>>
       ELSE IF staff_id # NULL
       THEN /\ staff' = IF staff_id \in DOMAIN staff
                        THEN [staff EXCEPT ![staff_id] = [active |-> active]]
                        ELSE staff
            /\ ret' = Ret("upsert_staff", TRUE, "", staff_id)
            /\ UNCHANGED staff_seq
       ELSE /\ staff_seq < NumStaff + MaxNewStaff
            /\ staff' = [i \in DOMAIN staff \cup {staff_seq + 1} |->
                            IF i = staff_seq + 1 THEN [active |-> active] ELSE staff[i]]
            /\ staff_seq' = staff_seq + 1
            /\ ret' = Ret("upsert_staff", TRUE, "", staff_seq + 1)
    /\ UNCHANGED <<tasks, now, pc, req, res, concurrent, sweep, timer, app>>

\* DB.delete_staff: "DELETE FROM staff WHERE id=?"; the foreign key of tasks is
\* ON DELETE SET NULL, so every task of the staff loses its staff_id and
\* nothing else
delete_staff(staff_id) ==
    /\ staff' = [i \in DOMAIN staff \ {staff_id} |-> staff[i]]
    /\ tasks' = [i \in TaskIds |->
                    IF staff_id \in DOMAIN staff /\ tasks[i].staff_id = staff_id
                    THEN [tasks[i] EXCEPT !.staff_id = NULL]
                    ELSE tasks[i]]
    /\ ret' = Ret("delete_staff", TRUE, "", 0)
    /\ UNCHANGED <<now, pc, req, res, concurrent, aux>>

\* ------------------------------------ the sweep beside another actor
\* cleanup_expired_holds up to "if not expired: return 0" (db.py 349-357): the
\* SELECT and the comparison with the clock
SweepSelect ==
    LET expired == DueHolds(tasks, now)
    IN  /\ sweep.pc = "idle"
        /\ IF expired = {}
           THEN /\ ret' = Ret("cleanup_expired_holds", TRUE, "", 0)
                /\ UNCHANGED sweep
           ELSE /\ sweep' = [pc |-> "selected", ids |-> expired]
                /\ UNCHANGED ret
        /\ UNCHANGED <<tasks, staff, now, pc, req, res, concurrent, staff_seq, timer, app>>

\* cleanup_expired_holds from executemany to the return (db.py 358-363):
\* "UPDATE tasks SET status='EXPIRED', ... WHERE id=?" for every selected id
SweepUpdate ==
    /\ sweep.pc = "selected"
    /\ tasks' = [i \in TaskIds |->
                    IF i \in sweep.ids THEN ExpiredRow(tasks[i], now) ELSE tasks[i]]
    /\ ret' = Ret("cleanup_expired_holds", TRUE, "", Cardinality(sweep.ids))
    /\ sweep' = [pc |-> "idle", ids |-> {}]
    /\ UNCHANGED <<staff, now, pc, req, res, concurrent, staff_seq, timer, app>>

\* ------------------------------------------- a sweep pass that fails
\* DB.cleanup_expired_holds in which the UPDATE of id f raises (the store is
\* locked by another connection, an I/O error).  executemany runs the UPDATEs
\* in the order of the SELECT, which scans tasks by id; there is no try around
\* a single row, so the rows before f are written, f and the rows after it are
\* not, commit() is not reached and the exception leaves the call (and
\* RootUI._tick, which has a finally clause and no except clause).  tasks is
\* the table as the application's connection reads it: the rows written before
\* the failure stay in its open transaction and the commit of the next
\* operation makes them durable.
SweepFails(f) ==
    LET expired == DueHolds(tasks, now)
    IN  /\ f \in expired
        /\ tasks' = [i \in TaskIds |->
                        IF i \in expired /\ i < f THEN ExpiredRow(tasks[i], now) ELSE tasks[i]]
        /\ ret' = Ret("cleanup_expired_holds", FALSE, "error", 0)
        /\ UNCHANGED <<staff, now, pc, req, res, concurrent, aux>>

\* ------------------------------------------------- a store that is busy
\* the task operations that write one row: assign_hold, confirm_task,
\* mark_done, cancel_task
TaskOps == {"assign_hold", "confirm_task", "mark_done", "cancel_task"}

\* A task operation whose UPDATE raises sqlite3.OperationalError ("database is
\* locked": another connection held the write lock for the whole busy timeout
\* of the connection).  Each operation is straight-line code that executes its
\* UPDATE once; assign_hold catches sqlite3.IntegrityError only and the other
\* three catch nothing, so the exception leaves the call.  Nothing is written.
\* req records the call of the (one) caller and how often it ran its statement.
StoreBusy(op, task_id) ==
    /\ pc[1] = "idle"
    /\ req' = [req EXCEPT ![1] = [op |-> op, task_id |-> task_id, attempts |-> 1]]
    /\ ret' = Ret(op, FALSE, "OperationalError", 0)
    /\ UNCHANGED <<tasks, staff, now, pc, res, concurrent, aux>>

\* ------------------------------------------------------ the periodic tick
\* what one run of RootUI._tick meets: nothing, an exception out of
\* cleanup_expired_holds (the store is busy), or an exception out of a view's
\* on_tick after the sweep has committed
TickOutcomes == {"ok", "sweep_error", "view_error"}

\* "self.after(2500, self._tick)" placed at the end of the try block: reached
\* only when nothing raised
Rescheduled_OnlyOnSuccess(outcome) == timer' = (outcome = "ok")

\* the finally clause of _tick: "self.after(2500, self._tick)"
Rescheduled(outcome) == timer' = TRUE

\* RootUI._tick, the callback of the pending timer.  Tk runs it whenever it is
\* pending; on a store that has been closed cleanup_expired_holds raises
\* sqlite3.ProgrammingError at its SELECT.
_tick(outcome) ==
    LET expired == DueHolds(tasks, now)
    IN  /\ timer
        /\ IF app = "closed"
           THEN /\ ret' = Ret("cleanup_expired_holds", FALSE, "closed store", 0)
                /\ UNCHANGED tasks
           ELSE IF outcome = "sweep_error"
           THEN /\ ret' = Ret("cleanup_expired_holds", FALSE, "error", 0)
                /\ UNCHANGED tasks
           ELSE /\ tasks' = [i \in TaskIds |->
                               IF i \in expired THEN ExpiredRow(tasks[i], now) ELSE tasks[i]]
                /\ ret' = Ret("cleanup_expired_holds", TRUE, "", Cardinality(expired))
        /\ Rescheduled(outcome)
        /\ UNCHANGED <<staff, now, pc, req, res, concurrent, staff_seq, sweep, app>>

\* close_window without "root.destroy()": the store is closed and the pending
\* callback stays
close_window_KeepsTimer ==
    /\ app = "running"
    /\ app' = "closed"
    /\ UNCHANGED <<tasks, staff, now, ret, pc, req, res, concurrent, staff_seq, sweep, timer>>

\* the WM_DELETE_WINDOW handler of run_app: "(db.close(), root.destroy())", one
\* callback of the event loop, so no other callback runs between the two
\* calls; destroy() deletes the Tcl command of the pending callback and ends
\* the main loop
close_window ==
    /\ app = "running"
    /\ app' = "closed"
    /\ timer' = FALSE
    /\ UNCHANGED <<tasks, staff, now, ret, pc, req, res, concurrent, staff_seq, sweep>>

\* ------------------------------------------------ two concurrent callers
Other(c) == CHOOSE d \in Callers : d # c

\* assign_hold up to and including the SELECT of _overlap_conflict (db.py 311-320)
HoldSelect(c, task_id, staff_id, start_time, duration_min, hold_minutes) ==
    LET sdt      == parse_iso(start_time)
        end_time == sdt + duration_min
        r        == [task_id |-> task_id, staff_id |-> staff_id, start_time |-> start_time,
                     duration_min |-> duration_min, hold_minutes |-> hold_minutes, now |-> now]
    IN  /\ pc[c] = "idle"
        /\ req' = [req EXCEPT ![c] = r]
        /\ concurrent' = (pc[Other(c)] = "hold_checked")
        /\ IF sdt = NULL
           THEN /\ ret' = Ret("assign_hold", FALSE, MsgBadTime, 0)
                /\ res' = [res EXCEPT ![c] = "failed"]
                /\ UNCHANGED pc
           ELSE IF _overlap_conflict(staff_id, start_time, end_time)
           THEN /\ ret' = Ret("assign_hold", FALSE, MsgOverlap, 0)
                /\ res' = [res EXCEPT ![c] = "failed"]
                /\ UNCHANGED pc
           ELSE /\ pc' = [pc EXCEPT ![c] = "hold_checked"]
                /\ res' = [res EXCEPT ![c] = "running"]
                /\ UNCHANGED ret
        /\ UNCHANGED <<tasks, staff, now, aux>>

\* assign_hold from the UPDATE to the return (db.py 322-334)
HoldUpdate(c) ==
    LET r  == req[c]
        T2 == UpdateHold(tasks, r.task_id, r.staff_id, r.start_time, r.duration_min,
                        r.hold_minutes, r.now)
    IN  /\ pc[c] = "hold_checked"
        /\ pc' = [pc EXCEPT ![c] = "idle"]
        /\ IF IntegrityOk(T2)
           THEN /\ tasks' = T2
                /\ ret' = Ret("assign_hold", TRUE, MsgHold, 0)
                /\ res' = [res EXCEPT ![c] = "ok"]
           ELSE /\ UNCHANGED tasks
                /\ ret' = Ret("assign_hold", FALSE, MsgStartTaken, 0)
                /\ res' = [res EXCEPT ![c] = "failed"]
        /\ UNCHANGED <<staff, now, req, concurrent, aux>>

\* ------------------------------------------------ two concurrent creators
\* create_or_update_task up to the write (db.py 250-254): the SELECT of the
\* conversation's active task and the reading of the clock.  The bound on the
\* table counts the INSERTs the callers are still to run.
CreateSelect(c, conv_id, extracted) ==
    LET tid     == ActiveTaskIn(tasks, conv_id)
        pending == Cardinality({d \in Callers : pc[d] = "create_selected" /\ req[d].tid = 0})
    IN  /\ pc[c] = "idle"
        /\ tid = 0 => Len(tasks) + pending < MaxTasks
        /\ pc' = [pc EXCEPT ![c] = "create_selected"]
        /\ req' = [req EXCEPT ![c] = [conv_id |-> conv_id, extracted |-> extracted,
                                      tid |-> tid, now |-> now]]
        /\ concurrent' = (pc[Other(c)] = "create_selected")
        /\ UNCHANGED <<tasks, staff, now, ret, res, aux>>

\* create_or_update_task from the write to the return (db.py 255-269): the
\* UPDATE of the selected row, or the INSERT of a TODO row when the SELECT
\* found none; nothing in the schema rejects a second active task of a
\* conversation
CreateWrite(c) ==
    LET r == req[c]
    IN  /\ pc[c] = "create_selected"
        /\ pc' = [pc EXCEPT ![c] = "idle"]
        /\ IF r.tid # 0
           THEN /\ tasks' = [tasks EXCEPT ![r.tid].info = r.extracted,
                                          ![r.tid].updated_time = r.now]
                /\ ret' = Ret("create_or_update_task", TRUE, "", r.tid)
           ELSE /\ tasks' = Append(tasks, [NewTask(r.conv_id, r.extracted) EXCEPT
                                               !.created_time = r.now, !.updated_time = r.now])
                /\ ret' = Ret("create_or_update_task", TRUE, "", Len(tasks) + 1)
        /\ res' = [res EXCEPT ![c] = "ok"]
        /\ UNCHANGED <<staff, now, req, concurrent, aux>>

\* ------------------------------------------------------- specifications
\* Spec: the store operations executed one at a time, all within one second of
\* the clock and with the hold_minutes setting at 0, over every staff, start
\* time and duration.
CreateOrUpdate == \E c \in Convs : create_or_update_task(c, "e1")
AssignHold ==
    \E t \in TaskIdArgs, s \in StaffIds, st \in StartTimes, d \in Durations :
        assign_hold(t, s, st, d, 0)
AssignHoldBadTime ==
    \E t \in TaskIdArgs : assign_hold(t, 1, BadTime, DEFAULT_DURATION, 0)
AssignHoldUnknownStaff ==
    \E t \in TaskIdArgs, st \in StartTimes : assign_hold(t, UnknownStaff, st, DEFAULT_DURATION, 0)
Confirm  == \E t \in TaskIdArgs : confirm_task(t)
MarkDone == \E t \in TaskIdArgs : mark_done(t)
Cancel   == \E t \in TaskIdArgs : cancel_task(t)
Sweep    == cleanup_expired_holds

Next ==
    \/ CreateOrUpdate
    \/ AssignHold
    \/ AssignHoldBadTime
    \/ AssignHoldUnknownStaff
    \/ Confirm
    \/ MarkDone
    \/ Cancel
    \/ Sweep

Spec == Init /\ [][Next]_vars

\* SpecLife: the store operations executed one at a time while the clock
\* advances, with the default hold_minutes, on one conversation and one start
\* time of either staff.
CreateLife == \E e \in Extracted : create_or_update_task(1, e)
HoldLife ==
    \E t \in TaskIdArgs, s \in StaffIds : assign_hold(t, s, 0, DEFAULT_DURATION, HOLD_MINUTES)

NextLife ==
    \/ AdvanceClock
    \/ CreateLife
    \/ HoldLife
    \/ Confirm
    \/ MarkDone
    \/ Cancel
    \/ Sweep

SpecLife == Init /\ [][NextLife]_vars

\* SpecEdit: the extraction of two conversations written to their tasks while
\* the clock advances and the tasks are held on one slot, confirmed, closed
\* and swept.
CreateEdit == \E c \in Convs, e \in Extracted : create_or_update_task(c, e)
HoldEdit   == \E t \in TaskIdArgs : assign_hold(t, 1, 0, DEFAULT_DURATION, HOLD_MINUTES)

NextEdit ==
    \/ AdvanceClock
    \/ CreateEdit
    \/ HoldEdit
    \/ Confirm
    \/ MarkDone
    \/ Cancel
    \/ Sweep

SpecEdit == Init /\ [][NextEdit]_vars

\* SpecStaff: the staff view saving and deleting the first staff member and
\* adding a new one while the clock advances and the task of one conversation
\* is held on that staff member, confirmed, completed and swept.
CreateStaffed == create_or_update_task(1, "e1")
HoldStaffed   == \E t \in TaskIds : assign_hold(t, 1, 0, DEFAULT_DURATION, HOLD_MINUTES)
ConfirmStaffed  == \E t \in TaskIds : confirm_task(t)
MarkDoneStaffed == \E t \in TaskIds : mark_done(t)
UpsertStaff ==
    \/ \E a \in {0, 1}, clash \in BOOLEAN : upsert_staff(1, a, clash)
    \/ upsert_staff(NULL, 1, FALSE)
DeleteStaff == delete_staff(1)

NextStaff ==
    \/ AdvanceClock
    \/ CreateStaffed
    \/ HoldStaffed
    \/ ConfirmStaffed
    \/ MarkDoneStaffed
    \/ UpsertStaff
    \/ DeleteStaff
    \/ Sweep

SpecStaff == Init /\ [][NextStaff]_vars

\* SpecTick: the running application: the timer fires _tick with any outcome
\* while the clock advances and the task of one conversation is held,
\* confirmed and cancelled, until the window is closed.  Tk runs a pending
\* timer callback, and the store is not busy for ever: a tick whose sweep goes
\* through is weakly fair.
TickStep    == \E o \in TickOutcomes : _tick(o)
CreateTick  == app = "running" /\ create_or_update_task(1, "e1")
HoldTick    == app = "running" /\ \E t \in TaskIds : assign_hold(t, 1, 0, DEFAULT_DURATION, HOLD_MINUTES)
ConfirmTick == app = "running" /\ \E t \in TaskIds : confirm_task(t)
CancelTick  == app = "running" /\ \E t \in TaskIds : cancel_task(t)
CloseWindow == close_window

NextTick ==
    \/ AdvanceClock
    \/ TickStep
    \/ CreateTick
    \/ HoldTick
    \/ ConfirmTick
    \/ CancelTick
    \/ CloseWindow

SpecTick == Init /\ [][NextTick]_vars /\ WF_vars(_tick("ok"))

\* SpecSweep: a sweep interleaved, between its SELECT and its UPDATE, with the
\* operations of another actor on the same store while the clock advances.
CreateSwept  == create_or_update_task(1, "e1")
HoldSwept    ==
    \E t \in TaskIds, s \in StaffIds : assign_hold(t, s, 0, DEFAULT_DURATION, HOLD_MINUTES)
ConfirmSwept == \E t \in TaskIds : confirm_task(t)
CancelSwept  == \E t \in TaskIds : cancel_task(t)

NextSweep ==
    \/ AdvanceClock
    \/ CreateSwept
    \/ HoldSwept
    \/ ConfirmSwept
    \/ CancelSwept
    \/ SweepSelect
    \/ SweepUpdate

SpecSweep == Init /\ [][NextSweep]_vars

\* SpecCreate: two callers inside create_or_update_task, interleaved at its
\* SELECT and its write, each with an extraction of its own, while the clock
\* advances and tasks are cancelled.  No task is held or confirmed, so a closed
\* task is never re-activated.
CreateSelectStep ==
    \E conv \in Convs : CreateSelect(1, conv, "e1") \/ CreateSelect(2, conv, "e2")
CreateWriteStep == \E c \in Callers : CreateWrite(c)
CancelCreated   == \E t \in TaskIds : cancel_task(t)

NextCreate ==
    \/ AdvanceClock
    \/ CreateSelectStep
    \/ CreateWriteStep
    \/ CancelCreated

SpecCreate == Init /\ [][NextCreate]_vars

\* SpecPass: sweep passes, some of which fail at one of the due holds, over
\* the tasks of two conversations held on either staff while the clock
\* advances.
CreatePass == \E c \in Convs : create_or_update_task(c, "e1")
HoldPass   ==
    \E t \in TaskIds, s \in StaffIds : assign_hold(t, s, 0, DEFAULT_DURATION, HOLD_MINUTES)
SweepFailsStep == \E f \in TaskIds : SweepFails(f)

NextPass ==
    \/ AdvanceClock
    \/ CreatePass
    \/ HoldPass
    \/ Confirm
    \/ Sweep
    \/ SweepFailsStep

SpecPass == Init /\ [][NextPass]_vars

\* SpecBusy: the task operations of one caller, some of which find the store
\* locked by another connection, while the clock advances.
CreateBusy == create_or_update_task(1, "e1")
HoldBusy   ==
    \E t \in TaskIds, s \in StaffIds : assign_hold(t, s, 0, DEFAULT_DURATION, HOLD_MINUTES)
StoreBusyStep == \E op \in TaskOps, t \in TaskIds : StoreBusy(op, t)

NextBusy ==
    \/ AdvanceClock
    \/ CreateBusy
    \/ HoldBusy
    \/ Confirm
    \/ MarkDone
    \/ Cancel
    \/ StoreBusyStep

SpecBusy == Init /\ [][NextBusy]_vars

\* SpecConc: two callers inside assign_hold, interleaved at its SELECT and its
\* UPDATE, while tasks are created, confirmed and cancelled.
HoldSelectStep ==
    \E c \in Callers, t \in TaskIds, st \in StartTimes :
        HoldSelect(c, t, 1, st, DEFAULT_DURATION, 0)
HoldUpdateStep == \E c \in Callers : HoldUpdate(c)

NextConc ==
    \/ CreateOrUpdate
    \/ HoldSelectStep
    \/ HoldUpdateStep
    \/ Confirm
    \/ Cancel

SpecConc == Init /\ [][NextConc]_vars

\* ------------------------------------------------------------- claims
\* half-open interval overlap: [s1, e1) and [s2, e2) share a point
Overlaps(s1, e1, s2, e2) == Max2(s1, s2) < Min2(e1, e2)

\* a row that occupies its staff: an active booking with staff and start set
Occupies(row) ==
    /\ row.status \in ActiveBooking
    /\ row.staff_id # NULL
    /\ row.start_time # NULL

\* some active booking [start_time, start_time + duration_min) of the staff
\* overlaps the candidate [start_time, end_time)
BookingOverlaps(T, staff_id, start_time, end_time) ==
    \E i \in 1..Len(T) :
        /\ Occupies(T[i])
        /\ T[i].staff_id = staff_id
        /\ Overlaps(T[i].start_time, T[i].start_time + T[i].duration_min, start_time, end_time)

\* C1: no two distinct active bookings (HOLD, CONFIRMED, IN_PROGRESS) of the
\* same staff have overlapping intervals [start_time, start_time + duration_min).
C1_NoDoubleBooking ==
    \A i, j \in TaskIds :
        (i # j /\ Occupies(tasks[i]) /\ Occupies(tasks[j])
               /\ tasks[i].staff_id = tasks[j].staff_id)
            => ~Overlaps(tasks[i].start_time, tasks[i].start_time + tasks[i].duration_min,
                         tasks[j].start_time, tasks[j].start_time + tasks[j].duration_min)

\* C2: of two assign_hold calls that ran concurrently for two different tasks
\* on the same staff with overlapping intervals, at most one succeeded.
C2_AtMostOneConcurrentHold ==
    ~ /\ concurrent
      /\ res[1] = "ok" /\ res[2] = "ok"
      /\ req[1].task_id # req[2].task_id
      /\ req[1].staff_id = req[2].staff_id
      /\ Overlaps(req[1].start_time, req[1].start_time + req[1].duration_min,
                  req[2].start_time, req[2].start_time + req[2].duration_min)

\* C3: for an existing task, an existing staff and a parsable start time,
\* assign_hold is rejected with a conflict exactly when the candidate interval
\* overlaps an active booking of that staff.
C3_ConflictIffOverlap ==
    [][\A t \in TaskIds, s \in StaffIds, st \in StartTimes, d \in Durations :
          assign_hold(t, s, st, d, 0)
              => ((ret'.msg \in {MsgOverlap, MsgStartTaken})
                      <=> BookingOverlaps(tasks, s, st, st + d))]_vars

\* C4: _overlap_conflict is true exactly when some active booking
\* [s, s + duration_min) of the staff overlaps the candidate, a stored
\* duration_min of 0 included.
C4_DetectorIsIntervalOverlap ==
    \A s \in StaffIds, st \in StartTimes, d \in Durations :
        _overlap_conflict(s, st, st + d) <=> BookingOverlaps(tasks, s, st, st + d)

\* C5: hold_expires_at is non-null if and only if the status is HOLD.
C5_ExpiryIffHold ==
    \A i \in TaskIds : (tasks[i].hold_expires_at # NULL) <=> (tasks[i].status = "HOLD")

\* C6: staff_id and start_time are both non-null if and only if the status is
\* HOLD, CONFIRMED, IN_PROGRESS or DONE.
C6_BookingFieldsIffAssigned ==
    \A i \in TaskIds :
        (tasks[i].staff_id # NULL /\ tasks[i].start_time # NULL)
            <=> (tasks[i].status \in {"HOLD", "CONFIRMED", "IN_PROGRESS", "DONE"})

\* C7: every conversation has at most one task whose status is TODO, HOLD,
\* CONFIRMED or IN_PROGRESS.
C7_OneActiveTaskPerConv ==
    \A c \in Convs :
        Cardinality({i \in TaskIds : tasks[i].conv_id = c /\ tasks[i].status \in ActiveForConv}) <= 1

\* C8: once a task is DONE, CANCELLED or EXPIRED no operation changes its status.
C8_TerminalIsFinal ==
    [][\A i \in TaskIds : tasks[i].status \in Terminal => tasks'[i].status = tasks[i].status]_vars

\* C9: confirm_task on a task whose status is not HOLD fails and leaves the
\* task unchanged.
C9_ConfirmOnlyFromHold ==
    [][\A t \in TaskIds :
          (confirm_task(t) /\ tasks[t].status # "HOLD") => (~ret'.ok /\ tasks' = tasks)]_vars

\* C10: confirm_task does not confirm a HOLD whose hold_expires_at is at or
\* before the current time.
C10_NoConfirmAfterExpiry ==
    [][\A t \in TaskIds :
          (confirm_task(t) /\ tasks[t].status = "HOLD" /\ tasks[t].hold_expires_at <= now)
              => tasks'[t].status # "CONFIRMED"]_vars

\* C11: of confirm_task and the sweep's expiry of one HOLD, the one that comes
\* second is not applied: confirm_task on a task the sweep has expired fails
\* and leaves it unchanged, the sweep leaves a task that was confirmed
\* unchanged, and no step takes a task from EXPIRED to CONFIRMED or from
\* CONFIRMED to EXPIRED.
C11_ConfirmExpireExclusive ==
    [][\A t \in TaskIds :
          /\ (confirm_task(t) /\ tasks[t].status = "EXPIRED")
                 => (~ret'.ok /\ tasks'[t] = tasks[t])
          /\ (cleanup_expired_holds /\ tasks[t].status = "CONFIRMED") => tasks'[t] = tasks[t]
          /\ tasks[t].status = "EXPIRED" => tasks'[t].status # "CONFIRMED"
          /\ tasks[t].status = "CONFIRMED" => tasks'[t].status # "EXPIRED"]_vars

\* C12: cancel_task on a task that is already CANCELLED, DONE or EXPIRED fails
\* and changes nothing, updated_time included.
C12_CancelTerminalRejected ==
    [][\A t \in TaskIds :
          (cancel_task(t) /\ tasks[t].status \in Terminal) => (~ret'.ok /\ tasks' = tasks)]_vars

\* C13: mark_done on a task whose status is neither CONFIRMED nor IN_PROGRESS
\* fails and leaves the task unchanged.
C13_DoneOnlyFromConfirmed ==
    [][\A t \in TaskIds :
          (mark_done(t) /\ tasks[t].status \notin {"CONFIRMED", "IN_PROGRESS"})
              => (~ret'.ok /\ tasks' = tasks)]_vars

\* a HOLD whose deadline is at or before n
DueAt(row, n) ==
    row.status = "HOLD" /\ row.hold_expires_at # NULL /\ row.hold_expires_at <= n

\* C14: right after a sweep at time now no task is a HOLD with hold_expires_at
\* at or before now: each such task is EXPIRED with staff_id, start_time and
\* hold_expires_at null and updated_time = now, and the sweep returns the
\* number of tasks it expired.
C14_SweepExpiresDueHolds ==
    [][cleanup_expired_holds =>
          /\ \A i \in TaskIds :
                DueAt(tasks[i], now) =>
                    /\ tasks'[i].status = "EXPIRED"
                    /\ tasks'[i].staff_id = NULL
                    /\ tasks'[i].start_time = NULL
                    /\ tasks'[i].hold_expires_at = NULL
                    /\ tasks'[i].updated_time = now
          /\ \A i \in 1..Len(tasks') : ~DueAt(tasks'[i], now')
          /\ ret'.n = Cardinality({i \in TaskIds : tasks[i].status = "HOLD"
                                                     /\ tasks'[i].status = "EXPIRED"})]_vars

\* C14 witness: a sweep has just expired two holds at once
C14_Witness ==
    /\ ret.op = "cleanup_expired_holds"
    /\ ret.n >= 2
    /\ Cardinality({i \in TaskIds : tasks[i].status = "EXPIRED" /\ tasks[i].updated_time = now}) >= 2

\* C15: a task's status becomes EXPIRED only in a step of the sweep, and only
\* if the task was a HOLD with hold_expires_at at or before now: no other
\* operation produces EXPIRED, no task is created EXPIRED, and a HOLD that is
\* not yet due is never expired.
C15_ExpiredOnlyBySweepOfDueHold ==
    [][/\ \A i \in TaskIds :
             (tasks[i].status # "EXPIRED" /\ tasks'[i].status = "EXPIRED")
                 => (cleanup_expired_holds /\ DueAt(tasks[i], now))
       /\ \A i \in 1..Len(tasks') : i > Len(tasks) => tasks'[i].status # "EXPIRED"]_vars

\* C15 witness: a sweep has just expired one hold and left a later one in HOLD
C15_Witness ==
    /\ ret.op = "cleanup_expired_holds"
    /\ ret.n = 1
    /\ \E i \in TaskIds : tasks[i].status = "EXPIRED" /\ tasks[i].updated_time = now
    /\ \E i \in TaskIds : tasks[i].status = "HOLD" /\ tasks[i].hold_expires_at > now

\* C16: the sweep is idempotent: when no HOLD is due it changes no task, not
\* even updated_time, and returns 0; and the state a sweep leaves holds no due
\* HOLD, so a second sweep at the same time is such a sweep.
C16_SweepIdempotent ==
    [][cleanup_expired_holds =>
          /\ (\A i \in TaskIds : ~DueAt(tasks[i], now)) => (tasks' = tasks /\ ret'.n = 0)
          /\ \A i \in 1..Len(tasks') : ~DueAt(tasks'[i], now')]_vars

\* C16 witness: a sweep has just found nothing, at the very time at which an
\* earlier sweep expired a hold
C16_Witness ==
    /\ ret.op = "cleanup_expired_holds"
    /\ ret.n = 0
    /\ \E i \in TaskIds : tasks[i].status = "EXPIRED" /\ tasks[i].updated_time = now

\* C17: the sweep leaves every task that is not a due HOLD exactly as it was,
\* creates and removes no task and touches no staff; so a task confirmed before
\* its deadline keeps its status, staff and interval through every later sweep.
C17_SweepFrame ==
    [][cleanup_expired_holds =>
          /\ Len(tasks') = Len(tasks)
          /\ staff' = staff
          /\ \A i \in TaskIds : ~DueAt(tasks[i], now) => tasks'[i] = tasks[i]]_vars

\* C17 witness: a sweep has just run at or after the deadline of a hold that
\* was confirmed earlier, and the task is still CONFIRMED with its staff and start
C17_Witness ==
    /\ ret.op = "cleanup_expired_holds"
    /\ now >= HOLD_MINUTES
    /\ \E i \in TaskIds : /\ tasks[i].status = "CONFIRMED"
                          /\ tasks[i].staff_id # NULL
                          /\ tasks[i].start_time # NULL
                          /\ tasks[i].updated_time < now

\* C18: when the sweep expires a hold, its former staff and interval are free
\* in the state the sweep leaves: assign_hold by any task for that staff and
\* the same or an overlapping interval is accepted, provided no active booking
\* of that staff overlaps the requested interval.
C18_ExpiredSlotIsFree ==
    [][cleanup_expired_holds =>
          \A i \in TaskIds :
              (tasks[i].status = "HOLD" /\ tasks'[i].status = "EXPIRED") =>
                  \A t \in 1..Len(tasks'), st \in StartTimes, d \in Durations :
                      LET s0 == tasks[i].start_time
                          e0 == s0 + tasks[i].duration_min
                      IN  (/\ (st = s0 /\ st + d = e0) \/ Overlaps(st, st + d, s0, e0)
                           /\ ~BookingOverlaps(tasks', tasks[i].staff_id, st, st + d))
                              => HoldAccepted(tasks', now', t, tasks[i].staff_id, st, d, 0)]_vars

\* some active booking of the staff held by a task other than task_id overlaps
\* the candidate [start_time, end_time)
OtherBookingOverlaps(T, task_id, staff_id, start_time, end_time) ==
    \E i \in 1..Len(T) :
        /\ i # task_id
        /\ Occupies(T[i])
        /\ T[i].staff_id = staff_id
        /\ Overlaps(T[i].start_time, T[i].start_time + T[i].duration_min, start_time, end_time)

\* C19: assign_hold on a task that is already HOLD or CONFIRMED succeeds
\* whenever the new interval overlaps no other task's active booking of the
\* target staff, also when it overlaps the task's own current slot, and the
\* task then holds the new staff, start and duration.
C19_RetargetOverOwnSlot ==
    [][\A t \in TaskIds, s \in StaffIds, st \in StartTimes, d \in Durations, h \in {0, HOLD_MINUTES} :
          (/\ assign_hold(t, s, st, d, h)
           /\ tasks[t].status \in {"HOLD", "CONFIRMED"}
           /\ ~OtherBookingOverlaps(tasks, t, s, st, st + d))
              => /\ ret'.ok
                 /\ tasks'[t].staff_id = s
                 /\ tasks'[t].start_time = st
                 /\ tasks'[t].duration_min = d]_vars

C21_FailedHoldChangesNothing ==
    [][(ret'.op = "assign_hold" /\ ~ret'.ok) => (tasks' = tasks /\ staff' = staff)]_vars

\* C21 witness: assign_hold has just been rejected by the unique index while
\* a booking is held
C21_Witness ==
    /\ ret.op = "assign_hold"
    /\ ~ret.ok
    /\ ret.msg = MsgStartTaken
    /\ \E i \in TaskIds : tasks[i].status = "HOLD" /\ tasks[i].staff_id \in StaffIds

\* C22: assign_hold with a start time that cannot be parsed, or with a zero or
\* negative duration, fails with the invalid-interval message and creates no
\* HOLD.
C22_InvalidIntervalRejected ==
    [][\A t \in TaskIds, s \in StaffIds, st \in StartTimes \cup {BadTime}, d \in Durations :
          ((parse_iso(st) = NULL \/ d <= 0) /\ assign_hold(t, s, st, d, 0))
              => (~ret'.ok /\ ret'.msg = MsgBadTime /\ tasks' = tasks)]_vars

\* C23: assign_hold, confirm_task, cancel_task and mark_done called with the
\* id of no task, and assign_hold called with the id of no staff, fail and
\* change nothing.
C23_UnknownIdsRejected ==
    [][/\ \A t \in TaskIdArgs \ TaskIds :
             (\/ confirm_task(t)
              \/ cancel_task(t)
              \/ mark_done(t)
              \/ \E s \in StaffIds, st \in StartTimes, d \in Durations : assign_hold(t, s, st, d, 0))
                 => (~ret'.ok /\ tasks' = tasks)
       /\ \A t \in TaskIds, st \in StartTimes :
             assign_hold(t, UnknownStaff, st, DEFAULT_DURATION, 0) => (~ret'.ok /\ tasks' = tasks)]_vars

\* C24: create_or_update_task changes the status, staff_id, start_time,
\* duration_min and hold_expires_at of no existing task, and changes nothing at
\* all of a task that is DONE, CANCELLED or EXPIRED or that belongs to another
\* conversation.
C24_CreateOrUpdateFrame ==
    [][\A c \in Convs, e \in Extracted :
          create_or_update_task(c, e) =>
              \A i \in TaskIds :
                  /\ tasks'[i].status = tasks[i].status
                  /\ tasks'[i].staff_id = tasks[i].staff_id
                  /\ tasks'[i].start_time = tasks[i].start_time
                  /\ tasks'[i].duration_min = tasks[i].duration_min
                  /\ tasks'[i].hold_expires_at = tasks[i].hold_expires_at
                  /\ (tasks[i].status \in Terminal \/ tasks[i].conv_id # c) => tasks'[i] = tasks[i]]_vars

\* C24 witness: create_or_update_task has just rewritten the extraction of a
\* booked task, later than its creation, while another task is terminal
C24_Witness ==
    /\ ret.op = "create_or_update_task"
    /\ ret.n \in TaskIds
    /\ tasks[ret.n].status \in {"HOLD", "CONFIRMED"}
    /\ tasks[ret.n].staff_id # NULL
    /\ tasks[ret.n].updated_time = now
    /\ tasks[ret.n].created_time < now
    /\ \E j \in TaskIds : tasks[j].status \in Terminal

\* the tasks of conversation c whose status is TODO, HOLD, CONFIRMED or IN_PROGRESS
ActiveOf(T, c) == {i \in 1..Len(T) : T[i].conv_id = c /\ T[i].status \in ActiveForConv}

\* C25: create_or_update_task returns the id of an active task of the
\* conversation.  With no active task it appends exactly one row, a TODO of the
\* conversation with staff_id, start_time and hold_expires_at null and both
\* timestamps now, and returns its id; otherwise it returns the id of an
\* existing active task and changes only that row's extraction and updated_time.
C25_CreateOrUpdateResult ==
    [][\A c \in Convs, e \in Extracted :
          create_or_update_task(c, e) =>
              IF ActiveOf(tasks, c) = {}
              THEN /\ Len(tasks') = Len(tasks) + 1
                   /\ ret'.n = Len(tasks')
                   /\ \A i \in TaskIds : tasks'[i] = tasks[i]
                   /\ tasks'[ret'.n].conv_id = c
                   /\ tasks'[ret'.n].info = e
                   /\ tasks'[ret'.n].status = "TODO"
                   /\ tasks'[ret'.n].staff_id = NULL
                   /\ tasks'[ret'.n].start_time = NULL
                   /\ tasks'[ret'.n].hold_expires_at = NULL
                   /\ tasks'[ret'.n].created_time = now
                   /\ tasks'[ret'.n].updated_time = now
              ELSE /\ ret'.n \in ActiveOf(tasks, c)
                   /\ tasks' = [tasks EXCEPT ![ret'.n].info = e, ![ret'.n].updated_time = now]]_vars

\* C25 witness: a conversation whose earlier task is closed has just been
\* given a new TODO task
C25_Witness ==
    /\ ret.op = "create_or_update_task"
    /\ ret.n = 2
    /\ Len(tasks) = 2
    /\ tasks[2].status = "TODO"
    /\ tasks[2].created_time = now
    /\ now > 0
    /\ tasks[1].conv_id = tasks[2].conv_id
    /\ tasks[1].status \in Terminal

\* C26: get_active_task_for_conv returns a task exactly when the conversation
\* has a task that is TODO, HOLD, CONFIRMED or IN_PROGRESS, the task returned
\* is such a task of that conversation, and it is the task a call of
\* create_or_update_task for the conversation updates and returns.
C26_ActiveTaskFor ==
    [][/\ \A c \in Convs :
             IF ActiveOf(tasks, c) = {}
             THEN get_active_task_for_conv(c) = 0
             ELSE get_active_task_for_conv(c) \in ActiveOf(tasks, c)
       /\ \A c \in Convs, e \in Extracted :
             (create_or_update_task(c, e) /\ ActiveOf(tasks, c) # {})
                 => /\ ret'.n = get_active_task_for_conv(c)
                    /\ \A i \in TaskIds : i # get_active_task_for_conv(c) => tasks'[i] = tasks[i]]_vars

\* C26 witness: one conversation's only task is closed, so it has no active
\* task, while the other conversation has one that is booked
C26_Witness ==
    /\ \E c \in Convs : /\ get_active_task_for_conv(c) = 0
                        /\ \E i \in TaskIds : tasks[i].conv_id = c /\ tasks[i].status \in Terminal
    /\ \E c \in Convs : /\ get_active_task_for_conv(c) # 0
                        /\ tasks[get_active_task_for_conv(c)].status \in {"HOLD", "CONFIRMED"}

\* C27: with a clock that never goes back, every step that changes a field of
\* a task sets its updated_time to the current time, so updated_time never
\* decreases and is never earlier than created_time, and created_time never
\* changes once the task exists.
C27_UpdatedTimeTracksChanges ==
    [][/\ \A i \in TaskIds :
             /\ tasks'[i] # tasks[i] => tasks'[i].updated_time = now
             /\ tasks'[i].updated_time >= tasks[i].updated_time
             /\ tasks'[i].created_time = tasks[i].created_time
       /\ \A i \in 1..Len(tasks') : tasks'[i].updated_time >= tasks'[i].created_time]_vars

\* C28: assign_hold never succeeds for a staff member whose active flag is 0.
C28_NoHoldOnInactiveStaff ==
    [][\A t \in TaskIds, s \in StaffIds :
          (/\ s \in DOMAIN staff
           /\ staff[s].active = 0
           /\ assign_hold(t, s, 0, DEFAULT_DURATION, HOLD_MINUTES))
              => ~ret'.ok]_vars

\* C29: while the application runs a _tick callback is always pending, also
\* after a tick in which the sweep or a view refresh raised; and under fair
\* ticks every HOLD whose deadline has passed stops being a due HOLD: the sweep
\* expires it unless it is confirmed, cancelled or re-held first, or the
\* application is closed.
C29_DueHoldEventuallyExpired ==
    /\ [](app = "running" => timer)
    /\ \A i \in 1..MaxTasks :
          (i \in TaskIds /\ DueAt(tasks[i], now))
              ~> (app = "closed" \/ ~(i \in TaskIds /\ DueAt(tasks[i], now)))

\* C29 witness: a tick whose sweep raised has just ended while a hold is due,
\* and the next tick is pending
C29_Witness ==
    /\ app = "running"
    /\ timer
    /\ ret.op = "cleanup_expired_holds"
    /\ ~ret.ok
    /\ \E i \in TaskIds : DueAt(tasks[i], now)

\* C30: the UPDATE of a sweep that runs beside another actor expires only
\* tasks that are due HOLDs when it writes: a task confirmed, cancelled or
\* re-held with a later deadline after the sweep's SELECT is not turned into
\* EXPIRED.
C30_SweepWritesOnlyDueHolds ==
    [][SweepUpdate =>
          \A i \in TaskIds :
              (tasks'[i].status = "EXPIRED" /\ tasks[i].status # "EXPIRED") => DueAt(tasks[i], now)]_vars

\* C31: when the calls of the two callers of create_or_update_task are over,
\* also calls for the same conversation that both ran their SELECT before
\* either ran its INSERT, every conversation has at most one active task.
C31_ConcurrentCreateOneActive ==
    (\A c \in Callers : pc[c] = "idle")
        => \A conv \in Convs :
              \A i, j \in TaskIds :
                  (/\ tasks[i].conv_id = conv /\ tasks[j].conv_id = conv
                   /\ tasks[i].status \in ActiveForConv
                   /\ tasks[j].status \in ActiveForConv) => i = j

\* C32: a CONFIRMED task with staff and start set can be moved to IN_PROGRESS
\* by an operation of the store, and no step gives a task the status
\* IN_PROGRESS unless the task was CONFIRMED.
C32_StartFromConfirmed ==
    /\ [](\A t \in 1..MaxTasks :
             (/\ t \in TaskIds
              /\ tasks[t].status = "CONFIRMED"
              /\ tasks[t].staff_id # NULL
              /\ tasks[t].start_time # NULL)
                 => ENABLED (NextLife /\ tasks'[t].status = "IN_PROGRESS"))
    /\ [][\A t \in TaskIds :
             (tasks'[t].status = "IN_PROGRESS" /\ tasks[t].status # "IN_PROGRESS")
                 => tasks[t].status = "CONFIRMED"]_vars

\* the table T with the booking of row t taken out
WithoutBooking(T, t) == [T EXCEPT ![t].staff_id = NULL, ![t].start_time = NULL]

\* C33: cancel_task on a task that is TODO, HOLD, CONFIRMED or IN_PROGRESS
\* succeeds, leaves the task CANCELLED and changes no other task; and after
\* the cancelling of a HOLD or CONFIRMED booking an assign_hold of another
\* task for the same staff and interval is decided as if the cancelled booking
\* were not there: when that other task is a TODO and the staff has no further
\* booking, it was rejected before the cancelling and is accepted after it.
C33_CancelReleasesSlot ==
    [][\A t \in TaskIds :
          (cancel_task(t) /\ tasks[t].status \in ActiveForConv)
              => /\ ret'.ok
                 /\ tasks'[t].status = "CANCELLED"
                 /\ \A j \in TaskIds \ {t} : tasks'[j] = tasks[j]
                 /\ (tasks[t].status \in {"HOLD", "CONFIRMED"} /\ Occupies(tasks[t]))
                        => \A u \in TaskIds \ {t} :
                              LET s  == tasks[t].staff_id
                                  st == tasks[t].start_time
                                  d  == tasks[t].duration_min
                              IN  /\ HoldAccepted(tasks', now, u, s, st, d, 0)
                                      <=> HoldAccepted(WithoutBooking(tasks', t), now, u, s, st, d, 0)
                                  /\ (/\ tasks[u].status = "TODO"
                                      /\ \A j \in TaskIds \ {t} : ~(Occupies(tasks[j]) /\ tasks[j].staff_id = s))
                                         => /\ ~HoldAccepted(tasks, now, u, s, st, d, 0)
                                            /\ HoldAccepted(tasks', now, u, s, st, d, 0)]_vars

\* a task was cancelled while it booked a staff, and a TODO task of another
\* conversation can now be held on the same staff and interval
C33_Witness ==
    /\ ret.op = "cancel_task" /\ ret.ok
    /\ \E t, u \in TaskIds :
          /\ t # u
          /\ tasks[t].status = "CANCELLED"
          /\ tasks[t].staff_id # NULL /\ tasks[t].start_time # NULL
          /\ tasks[t].duration_min > 0
          /\ tasks[u].status = "TODO"
          /\ HoldAccepted(tasks, now, u, tasks[t].staff_id, tasks[t].start_time,
                          tasks[t].duration_min, 0)

\* two distinct active bookings of table T have the same staff and the same
\* start time
SameSlotPair(T) ==
    \E i, j \in 1..Len(T) :
        /\ i # j
        /\ Occupies(T[i]) /\ Occupies(T[j])
        /\ T[i].staff_id = T[j].staff_id
        /\ T[i].start_time = T[j].start_time

\* C34: in every state, also of two callers interleaved inside assign_hold, no
\* two distinct tasks in HOLD, CONFIRMED or IN_PROGRESS have the same non-null
\* staff_id and the same start_time; the UPDATE of an assign_hold and a
\* confirm_task that would produce such a pair fail and leave the tasks table
\* unchanged.
C34_UniqueIndexHolds ==
    /\ [](~SameSlotPair(tasks))
    /\ [][\A c \in Callers :
             (/\ HoldUpdate(c)
              /\ SameSlotPair(UpdateHold(tasks, req[c].task_id, req[c].staff_id, req[c].start_time,
                                         req[c].duration_min, req[c].hold_minutes, req[c].now)))
                 => (tasks' = tasks /\ ~ret'.ok /\ ret'.msg = MsgStartTaken)]_vars
    /\ [][\A t \in TaskIds :
             (/\ confirm_task(t)
              /\ SameSlotPair([tasks EXCEPT ![t].status = "CONFIRMED"]))
                 => (tasks' = tasks /\ ~ret'.ok)]_vars

\* both kinds of rejected write have happened: the UPDATE of a hold that ran
\* beside another hold of the same slot, and the confirming of a closed task
\* whose slot another task has taken
C34_Witness ==
    \/ /\ concurrent
       /\ ret.op = "assign_hold" /\ ret.msg = MsgStartTaken
       /\ \E c \in Callers : res[c] = "ok" /\ res[Other(c)] = "failed"
                             /\ req[1].staff_id = req[2].staff_id
                             /\ req[1].start_time = req[2].start_time
                             /\ req[1].task_id # req[2].task_id
    \/ /\ ret.op = "confirm_task" /\ ~ret.ok
       /\ \E i, j \in TaskIds :
             /\ i # j
             /\ tasks[i].status = "CANCELLED" /\ Occupies(tasks[j])
             /\ tasks[i].staff_id = tasks[j].staff_id
             /\ tasks[i].start_time = tasks[j].start_time

\* staff s is the staff of a DONE task of table T
ReferencedByDone(T, s) ==
    \E i \in 1..Len(T) : T[i].status = "DONE" /\ T[i].staff_id = s

\* C35: no step changes or removes a staff record that a DONE task refers to,
\* or takes the staff_id from that DONE task; and a delete_staff takes the
\* staff_id from no task that is HOLD, CONFIRMED or DONE.
C35_ReferencedStaffImmutable ==
    /\ [][\A s \in DOMAIN staff :
             ReferencedByDone(tasks, s)
                 => /\ s \in DOMAIN staff'
                    /\ staff'[s] = staff[s]
                    /\ \A i \in TaskIds :
                          (tasks[i].status = "DONE" /\ tasks[i].staff_id = s)
                              => tasks'[i].staff_id = s]_vars
    /\ [][\A s \in StaffIds :
             delete_staff(s)
                 => \A i \in TaskIds :
                       (tasks[i].status \in {"HOLD", "CONFIRMED", "DONE"} /\ tasks[i].staff_id # NULL)
                           => tasks'[i].staff_id # NULL]_vars

\* C36: in a sweep pass in which the expiry of one due hold fails, every other
\* hold that was due at the start of the pass ends the pass EXPIRED with its
\* staff, start and deadline cleared, and every row is either as it was or
\* wholly expired.
C36_SweepContinuesPastFailure ==
    [][\A f \in TaskIds :
          SweepFails(f)
              => /\ \A i \in TaskIds \ {f} :
                       DueAt(tasks[i], now)
                           => /\ tasks'[i].status = "EXPIRED"
                              /\ tasks'[i].staff_id = NULL
                              /\ tasks'[i].start_time = NULL
                              /\ tasks'[i].hold_expires_at = NULL
                 /\ \A i \in TaskIds :
                       \/ tasks'[i] = tasks[i]
                       \/ /\ tasks'[i].status = "EXPIRED"
                          /\ tasks'[i].staff_id = NULL
                          /\ tasks'[i].start_time = NULL
                          /\ tasks'[i].hold_expires_at = NULL
                          /\ tasks'[i].updated_time = now]_vars

\* C37: a task operation to which the store reports a transient error is run
\* again: when the step with the error is over, the call is either still
\* running or has run its statement more than once, and if it has ended it
\* has failed with the tasks unchanged.
C37_TransientErrorRetried ==
    [][\A op \in TaskOps, t \in TaskIds :
          StoreBusy(op, t)
              => /\ pc'[1] # "idle" \/ req'[1].attempts > 1
                 /\ pc'[1] = "idle" => (~ret'.ok /\ tasks' = tasks)]_vars

\* C38: once the window-close handler has closed the store and destroyed the
\* root, no timer callback is pending and no tick runs: cleanup_expired_holds
\* is never called on the closed store.
C38_NoTickAfterShutdown ==
    /\ [](app = "closed" => ~timer)
    /\ [][\A o \in TickOutcomes : _tick(o) => app = "running"]_vars
    /\ [](ret.msg # "closed store")

\* the window was closed while a hold was due and a callback was pending
\* until then: the hold stays a HOLD in the closed store
C38_Witness ==
    /\ app = "closed"
    /\ ~timer
    /\ \E i \in TaskIds : DueAt(tasks[i], now)

====
